---- MODULE Spec2Model ----
(***************************************************************************)
(* A model of the investment tracker (src/app.py, src/models.py): the      *)
(* three tables of the SQLite store, the Flask session, and one action per *)
(* route handler.  Text is a sequence of one-character strings, a Python   *)
(* float is a tagged record, and a handler's answer (redirect, flashes,    *)
(* rendered page) is the variable response.  The tables are the committed  *)
(* database; conn is the connection of a handler taken statement by        *)
(* statement, with the writes it has not committed.                        *)
(***************************************************************************)
EXTENDS Integers, Sequences, FiniteSets, Bags, TLC

VARIABLES users, investments, transactions, nextInvId, session, response, conn

vars == <<users, investments, transactions, nextInvId, session, response, conn>>
store == <<users, investments, transactions, nextInvId>>

\* ------------------------------------------------------------------ bounds

\* The most investment rows ever inserted (AUTOINCREMENT ids 1..MaxRows) in
\* Spec, where two users send every kind of request.
MaxRows == 1

\* The same, in SpecDash and SpecCsv, where fewer kinds of request are sent.
MaxHoldings == 2

\* ------------------------------------------------------------ Python text

Range(s) == {s[i] : i \in 1..Len(s)}

IsSpace(c) == c = " "

RECURSIVE LStrip(_)
LStrip(s) == IF s # <<>> /\ IsSpace(Head(s)) THEN LStrip(Tail(s)) ELSE s

RECURSIVE RStrip(_)
RStrip(s) ==
  IF s # <<>> /\ IsSpace(s[Len(s)]) THEN RStrip(SubSeq(s, 1, Len(s) - 1)) ELSE s

\* str.strip(): whitespace removed at both ends only.
Strip(s) == RStrip(LStrip(s))

UpperChar(c) ==
  CASE c = "a" -> "A"
    [] c = "b" -> "B"
    [] c = "m" -> "M"
    [] c = "x" -> "X"
    [] OTHER -> c

\* str.upper(), on the letters the symbols of the model are written in.
Upper(s) == [i \in 1..Len(s) |-> UpperChar(s[i])]

\* The byte of a character, for SQLite's BINARY collation (ORDER BY symbol).
CharCode(c) ==
  CASE c = " " -> 32
    [] c = "A" -> 65
    [] c = "B" -> 66
    [] c = "M" -> 77
    [] c = "X" -> 88
    [] c = "a" -> 97
    [] c = "b" -> 98
    [] c = "m" -> 109
    [] c = "x" -> 120
    [] OTHER -> 63

RECURSIVE TextLeq(_, _)
TextLeq(a, b) ==
  IF a = <<>> THEN TRUE
  ELSE IF b = <<>> THEN FALSE
  ELSE IF CharCode(Head(a)) # CharCode(Head(b))
       THEN CharCode(Head(a)) < CharCode(Head(b))
  ELSE TextLeq(Tail(a), Tail(b))

\* ---------------------------------------------------------- Python floats
\* A finite float is its value in thousandths (v = 1000 * x); the inputs of
\* the model are chosen so that every product and quotient taken is exact in
\* thousandths and no rounding to cents meets a tie.

Fin(n) == [k |-> "fin", v |-> n]
NaN == [k |-> "nan", v |-> 0]
Inf(sign) == [k |-> "inf", v |-> sign]

Sign(n) == IF n > 0 THEN 1 ELSE IF n < 0 THEN -1 ELSE 0

\* x <= 0 and x > 0 as Python compares floats: both are False of nan.
FLeqZero(x) == x.k # "nan" /\ x.v <= 0
FGtZero(x) == x.k # "nan" /\ x.v > 0

FNeg(x) == IF x.k = "nan" THEN NaN ELSE [k |-> x.k, v |-> 0 - x.v]

FMul(x, y) ==
  IF x.k = "nan" \/ y.k = "nan" THEN NaN
  ELSE IF x.k = "fin" /\ y.k = "fin" THEN Fin((x.v * y.v) \div 1000)
  ELSE IF x.v = 0 \/ y.v = 0 THEN NaN
  ELSE Inf(Sign(x.v) * Sign(y.v))

FAdd(x, y) ==
  IF x.k = "nan" \/ y.k = "nan" THEN NaN
  ELSE IF x.k = "fin" /\ y.k = "fin" THEN Fin(x.v + y.v)
  ELSE IF x.k = "inf" /\ y.k = "inf"
       THEN (IF x.v = y.v THEN x ELSE NaN)
  ELSE IF x.k = "inf" THEN x ELSE y

FSub(x, y) == FAdd(x, FNeg(y))

\* x / y * 100 for y > 0 (the only quotient the handlers take), taken to
\* thousandths.
FPercent(x, y) ==
  IF x.k = "nan" \/ y.k = "nan" THEN NaN
  ELSE IF x.k = "fin" /\ y.k = "fin"
       THEN LET h == x.v * 100
            IN  Fin(1000 * (h \div y.v) + (1000 * (h % y.v)) \div y.v)
  ELSE IF x.k = "inf" /\ y.k = "inf" THEN NaN
  ELSE IF x.k = "inf" THEN x ELSE Fin(0)

\* round(x, 2): to the nearest cent, ties to even; inf and nan are returned.
Round2(x) ==
  IF x.k # "fin" THEN x
  ELSE LET a == IF x.v < 0 THEN 0 - x.v ELSE x.v
           q == a \div 10
           r == a % 10
           up == r > 5 \/ (r = 5 /\ q % 2 = 1)
           m == 10 * (IF up THEN q + 1 ELSE q)
       IN  Fin(IF x.v < 0 THEN 0 - m ELSE m)

\* x == y of two floats: nan equals nothing.
FEq(x, y) == x.k # "nan" /\ y.k # "nan" /\ x = y

Digits == {"0", "1", "2", "3", "4", "5", "6", "7", "8", "9"}

DigitVal(c) ==
  CASE c = "0" -> 0 [] c = "1" -> 1 [] c = "2" -> 2 [] c = "3" -> 3
    [] c = "4" -> 4 [] c = "5" -> 5 [] c = "6" -> 6 [] c = "7" -> 7
    [] c = "8" -> 8 [] c = "9" -> 9

DigitChar(n) ==
  CASE n = 0 -> "0" [] n = 1 -> "1" [] n = 2 -> "2" [] n = 3 -> "3"
    [] n = 4 -> "4" [] n = 5 -> "5" [] n = 6 -> "6" [] n = 7 -> "7"
    [] n = 8 -> "8" [] n = 9 -> "9"

IsDigits(s) == \A i \in 1..Len(s) : s[i] \in Digits

RECURSIVE DigitsVal(_)
DigitsVal(s) ==
  IF s = <<>> THEN 0
  ELSE 10 * DigitsVal(SubSeq(s, 1, Len(s) - 1)) + DigitVal(s[Len(s)])

RECURSIVE NatToText(_)
NatToText(n) ==
  IF n < 10 THEN <<DigitChar(n)>>
  ELSE NatToText(n \div 10) \o <<DigitChar(n % 10)>>

Pow10(n) == CASE n = 0 -> 1 [] n = 1 -> 10 [] n = 2 -> 100 [] OTHER -> 1000

Ok(x) == [err |-> "", val |-> x]
Raise(e) == [err |-> e, val |-> NaN]

\* An unsigned decimal literal: digits, optionally a point and digits, a digit
\* on at least one side; at most three decimals are written in the model.
ParseDecimal(s) ==
  LET dots == {i \in 1..Len(s) : s[i] = "."}
  IN  IF dots = {}
      THEN (IF s # <<>> /\ IsDigits(s)
            THEN Ok(Fin(1000 * DigitsVal(s))) ELSE Raise("ValueError"))
      ELSE IF Cardinality(dots) > 1 THEN Raise("ValueError")
      ELSE LET p == CHOOSE i \in dots : TRUE
               ip == SubSeq(s, 1, p - 1)
               fp == SubSeq(s, p + 1, Len(s))
           IN  IF IsDigits(ip) /\ IsDigits(fp) /\ Len(ip) + Len(fp) > 0
                  /\ Len(fp) <= 3
               THEN Ok(Fin(1000 * DigitsVal(ip)
                           + DigitsVal(fp) * Pow10(3 - Len(fp))))
               ELSE Raise("ValueError")

ParseUnsigned(s) ==
  IF s = <<"n", "a", "n">> THEN Ok(NaN)
  ELSE IF s = <<"i", "n", "f">> THEN Ok(Inf(1))
  ELSE ParseDecimal(s)

\* float(text): surrounding whitespace is ignored, a sign may lead, anything
\* that is no number raises ValueError.
FloatOfText(t) ==
  LET s == Strip(t)
  IN  IF s # <<>> /\ Head(s) \in {"-", "+"}
      THEN LET r == ParseUnsigned(Tail(s))
           IN  IF r.err = "" /\ Head(s) = "-" THEN Ok(FNeg(r.val)) ELSE r
      ELSE ParseUnsigned(s)

\* repr(x), which csv.writer writes for a float: "5.0", "0.004", "inf".
RECURSIVE TrimZeros(_)
TrimZeros(s) ==
  IF Len(s) > 1 /\ s[Len(s)] = "0" THEN TrimZeros(SubSeq(s, 1, Len(s) - 1))
  ELSE s

TextOfFloat(x) ==
  IF x.k = "nan" THEN <<"n", "a", "n">>
  ELSE IF x.k = "inf"
       THEN (IF x.v < 0 THEN <<"-">> ELSE <<>>) \o <<"i", "n", "f">>
  ELSE LET a == IF x.v < 0 THEN 0 - x.v ELSE x.v
           f == a % 1000
           frac == <<DigitChar(f \div 100), DigitChar((f \div 10) % 10),
                     DigitChar(f % 10)>>
       IN  (IF x.v < 0 THEN <<"-">> ELSE <<>>)
           \o NatToText(a \div 1000) \o <<".">> \o TrimZeros(frac)

\* ------------------------------------------------------------- the store
\* users, investments and transactions are the three tables of models.py, each
\* a sequence of rows in rowid order.  The CURRENT_TIMESTAMP a row is given
\* is modelled by the row's insertion ordinal in its table (its id).

\* A Python float bound to a REAL NOT NULL column: SQLite stores nan as NULL,
\* which the NOT NULL constraint refuses with an IntegrityError.
BindsNull(x) == x.k = "nan"

UserByName(name) ==
  LET hit(u) == u.username = name IN SelectSeq(users, hit)

\* InvestmentOf without its "AND user_id = ?".
InvestmentOfAnyUser(id, uid) ==
  LET hit(r) == r.id = id IN SelectSeq(investments, hit)

\* SELECT * FROM investments WHERE id = ? AND user_id = ?
InvestmentOf(id, uid) ==
  LET hit(r) == r.id = id /\ r.user_id = uid IN SelectSeq(investments, hit)

\* SELECT ... FROM investments WHERE user_id = ?  (rowid order)
InvestmentsOfUser(uid) ==
  LET hit(r) == r.user_id = uid IN SelectSeq(investments, hit)

TransactionsOfUser(uid) ==
  LET hit(t) == t.user_id = uid IN SelectSeq(transactions, hit)

InvestmentRow(id, uid, symbol, category, quantity, buy_price) ==
  [id |-> id, user_id |-> uid, symbol |-> symbol, category |-> category,
   quantity |-> quantity, buy_price |-> buy_price, purchase_date |-> id]

TransactionRow(id, uid, symbol, type, quantity, price) ==
  [id |-> id, user_id |-> uid, symbol |-> symbol, transaction_type |-> type,
   quantity |-> quantity, price |-> price, transaction_date |-> id]

\* ------------------------------------------------------------ the session

EmptySession == [key \in {} |-> 0]

LoggedIn == "user_id" \in DOMAIN session

\* A logout that leaves the session as it is.
ClearedSessionKept == session

\* session.clear()
ClearedSession == EmptySession

\* ----------------------------------------------------------- the response
\* What a request answers: a redirect to a route or a rendered template, the
\* messages it flashed, and the data handed to the template (or the body).

Flash(cat, msg, args) == [cat |-> cat, msg |-> msg, args |-> args]

Redirect(op, to, flashes) ==
  [op |-> op, status |-> "redirect", to |-> to, flash |-> flashes, page |-> <<>>]

Render(op, template, flashes, page) ==
  [op |-> op, status |-> "render", to |-> template, flash |-> flashes,
   page |-> page]

Abort500(op) ==
  [op |-> op, status |-> "error500", to |-> "500.html", flash |-> <<>>,
   page |-> <<>>]

\* require_login, when "user_id" is not in the session.
Refused(op) ==
  /\ response' = Redirect(op, "login",
                   <<Flash("warning", "Please log in to access this page.", <<>>)>>)
  /\ UNCHANGED <<store, session>>

\* ------------------------------------------------------------ market data
\* What yfinance gives for one symbol: history() raises (network error) or
\* returns closing prices, possibly none; ticker.info raises or is a dictionary
\* that may hold currentPrice and longName.

Lookup(raises, closes, infoRaises, info) ==
  [raises |-> raises, closes |-> closes, infoRaises |-> infoRaises,
   info |-> info]

EmptyInfo == [key \in {} |-> 0]

None == [err |-> "None", val |-> NaN]

\* get_live_price: the last close of the day's history when there is one, else
\* info.get("currentPrice", 0.0); None when anything raised.
GetLivePrice(lk) ==
  IF lk.raises THEN None
  ELSE IF lk.closes # <<>> THEN Ok(lk.closes[Len(lk.closes)])
  ELSE IF lk.infoRaises THEN None
  ELSE IF "currentPrice" \in DOMAIN lk.info THEN Ok(lk.info.currentPrice)
  ELSE Ok(Fin(0))

\* get_stock_info(symbol)["name"]
StockName(symbol, lk) ==
  IF lk.infoRaises THEN symbol
  ELSE IF "longName" \in DOMAIN lk.info THEN lk.info.longName
  ELSE symbol

\* ------------------------------------------------------------------- auth

MinUsernameLen == 3
MinPasswordLen == 6

\* generate_password_hash / check_password_hash: a one-way image of the
\* password that only the same password verifies against.
GeneratePasswordHash(pw) == [method |-> "pbkdf2", of |-> pw]
CheckPasswordHash(h, pw) == h.of = pw

\* A users table without the UNIQUE constraint.
UsernameNeverTaken(name) == FALSE

\* username TEXT UNIQUE: the INSERT of a name some row holds is refused.
UsernameTaken(name) == UserByName(name) # <<>>

Home ==
  /\ response' = Redirect("home", IF LoggedIn THEN "dashboard" ELSE "login", <<>>)
  /\ UNCHANGED <<store, session>>

RegisterGet ==
  /\ response' = Render("register", "register.html", <<>>, <<>>)
  /\ UNCHANGED <<store, session>>

Register(usernameRaw, passwordRaw) ==
  LET username == Strip(usernameRaw)
  IN  /\ UNCHANGED <<investments, transactions, nextInvId, session>>
      /\ IF Len(username) < MinUsernameLen
         THEN /\ response' = Redirect("register", "register",
                   <<Flash("danger", "Username must be at least 3 characters.", <<>>)>>)
              /\ UNCHANGED users
         ELSE IF Len(passwordRaw) < MinPasswordLen
         THEN /\ response' = Redirect("register", "register",
                   <<Flash("danger", "Password must be at least 6 characters.", <<>>)>>)
              /\ UNCHANGED users
         ELSE IF UsernameTaken(username)
         THEN \* sqlite3.IntegrityError
              /\ response' = Redirect("register", "register",
                   <<Flash("danger", "Username already exists. Please choose another.", <<>>)>>)
              /\ UNCHANGED users
         ELSE /\ users' = Append(users,
                   [id |-> Len(users) + 1, username |-> username,
                    password |-> GeneratePasswordHash(passwordRaw),
                    created_at |-> Len(users) + 1])
              /\ response' = Redirect("register", "login",
                   <<Flash("success", "Account created successfully! Please log in.", <<>>)>>)

LoginGet ==
  /\ response' = Render("login", "login.html", <<>>, <<>>)
  /\ UNCHANGED <<store, session>>

Login(usernameRaw, password) ==
  LET username == Strip(usernameRaw)
      found == UserByName(username)
  IN  /\ UNCHANGED store
      /\ IF found # <<>> /\ CheckPasswordHash(found[1].password, password)
         THEN /\ session' = [k \in DOMAIN session \cup {"user_id", "username"} |->
                              IF k = "user_id" THEN found[1].id
                              ELSE IF k = "username" THEN found[1].username
                              ELSE session[k]]
              /\ response' = Redirect("login", "dashboard",
                   <<Flash("success", "Welcome back", <<username>>)>>)
         ELSE /\ session' = session
              /\ response' = Render("login", "login.html",
                   <<Flash("danger", "Invalid username or password.", <<>>)>>, <<>>)

Logout ==
  /\ session' = ClearedSession
  /\ response' = Redirect("logout", "login",
       <<Flash("info", "Goodbye",
               <<IF "username" \in DOMAIN session THEN session.username
                 ELSE <<"U", "s", "e", "r">>>>)>>)
  /\ UNCHANGED store

\* ------------------------------------------------------------ investments

\* InvalidAmounts with < written for <=.
InvalidAmountsStrict(q, p) ==
  q.err # "" \/ p.err # "" \/ (q.val.k # "nan" /\ q.val.v < 0)
  \/ (p.val.k # "nan" /\ p.val.v < 0)

\* The quantity/price check of add_investment and edit_investment: float()
\* of either raises, or either is <= 0.
InvalidAmounts(q, p) ==
  q.err # "" \/ p.err # "" \/ FLeqZero(q.val) \/ FLeqZero(p.val)

\* INSERT INTO investments (user_id, symbol, category, quantity, buy_price)
InsertInvestment(rows, id, uid, symbol, category, quantity, buy_price) ==
  Append(rows, InvestmentRow(id, uid, symbol, category, quantity, buy_price))

\* InsertTransaction with quantity and price bound in each other's place.
InsertTransactionSwapped(uid, symbol, type, quantity, price) ==
  Append(transactions,
         TransactionRow(Len(transactions) + 1, uid, symbol, type, price, quantity))

\* InsertTransaction as a REPLACE of the table's one row.
InsertTransactionReplacing(uid, symbol, type, quantity, price) ==
  <<TransactionRow(1, uid, symbol, type, quantity, price)>>

\* INSERT INTO transactions (user_id, symbol, transaction_type, quantity, price)
InsertTransaction(uid, symbol, type, quantity, price) ==
  Append(transactions,
         TransactionRow(Len(transactions) + 1, uid, symbol, type, quantity, price))

\* UPDATE investments SET quantity = ?, buy_price = ? WHERE id = ?
UpdateInvestment(id, quantity, buy_price) ==
  [i \in 1..Len(investments) |->
     IF investments[i].id = id
     THEN [investments[i] EXCEPT !.quantity = quantity, !.buy_price = buy_price]
     ELSE investments[i]]

\* DELETE FROM investments WHERE id = ? AND user_id = ?
DeleteInvestmentRow(id, uid) ==
  LET keep(r) == ~(r.id = id /\ r.user_id = uid) IN SelectSeq(investments, keep)

AmountsFlash ==
  Flash("danger", "Quantity and price must be positive numbers.", <<>>)

AddInvestmentGet ==
  IF ~LoggedIn THEN Refused("add_investment")
  ELSE /\ response' = Render("add_investment", "add_investment.html", <<>>, <<>>)
       /\ UNCHANGED <<store, session>>

AddInvestment(symbolRaw, categoryRaw, quantityRaw, priceRaw, lk) ==
  IF ~LoggedIn THEN Refused("add_investment")
  ELSE
    LET symbol == Upper(Strip(symbolRaw))
        category == Strip(categoryRaw)
        q == FloatOfText(quantityRaw)
        p == FloatOfText(priceRaw)
        warn == IF GetLivePrice(lk) = None
                THEN <<Flash("warning", "Could not verify symbol", <<symbol>>)>>
                ELSE <<>>
    IN  /\ UNCHANGED <<users, session>>
        /\ IF symbol = <<>> \/ category = <<>>
           THEN /\ response' = Redirect("add_investment", "add_investment",
                     <<Flash("danger", "Symbol and category are required.", <<>>)>>)
                /\ UNCHANGED <<investments, transactions, nextInvId>>
           ELSE IF InvalidAmounts(q, p)
           THEN /\ response' = Redirect("add_investment", "add_investment",
                                        <<AmountsFlash>>)
                /\ UNCHANGED <<investments, transactions, nextInvId>>
           ELSE IF BindsNull(q.val) \/ BindsNull(p.val)
           THEN \* IntegrityError in the first INSERT, caught; nothing committed
                /\ response' = Redirect("add_investment", "add_investment",
                     warn \o <<Flash("danger", "Error adding investment", <<>>)>>)
                /\ UNCHANGED <<investments, transactions, nextInvId>>
           ELSE /\ investments' = InsertInvestment(investments, nextInvId,
                     session.user_id, symbol, category, q.val, p.val)
                /\ transactions' = InsertTransaction(session.user_id, symbol,
                                                     "BUY", q.val, p.val)
                /\ nextInvId' = nextInvId + 1
                /\ response' = Redirect("add_investment", "dashboard",
                     warn \o <<Flash("success", "Successfully added",
                                     <<q.val, symbol>>)>>)

EditInvestmentGet(id) ==
  IF ~LoggedIn THEN Refused("edit_investment")
  ELSE LET found == InvestmentOf(id, session.user_id)
       IN  /\ UNCHANGED <<store, session>>
           /\ response' =
                IF found = <<>>
                THEN Redirect("edit_investment", "dashboard",
                       <<Flash("danger", "Investment not found.", <<>>)>>)
                ELSE Render("edit_investment", "edit_investment.html", <<>>,
                            found[1])

EditInvestment(id, quantityRaw, priceRaw) ==
  IF ~LoggedIn THEN Refused("edit_investment")
  ELSE
    LET found == InvestmentOf(id, session.user_id)
        q == FloatOfText(quantityRaw)
        p == FloatOfText(priceRaw)
    IN  /\ UNCHANGED <<users, transactions, nextInvId, session>>
        /\ IF found = <<>>
           THEN /\ response' = Redirect("edit_investment", "dashboard",
                     <<Flash("danger", "Investment not found.", <<>>)>>)
                /\ UNCHANGED investments
           ELSE IF InvalidAmounts(q, p)
           THEN /\ response' = Redirect("edit_investment", "edit_investment",
                                        <<AmountsFlash>>)
                /\ UNCHANGED investments
           ELSE IF BindsNull(q.val) \/ BindsNull(p.val)
           THEN \* IntegrityError in the UPDATE, not caught; nothing committed
                /\ response' = Abort500("edit_investment")
                /\ UNCHANGED investments
           ELSE /\ investments' = UpdateInvestment(id, q.val, p.val)
                /\ response' = Redirect("edit_investment", "dashboard",
                     <<Flash("success", "Investment updated successfully!", <<>>)>>)

DeleteInvestment(id) ==
  IF ~LoggedIn THEN Refused("delete_investment")
  ELSE
    LET found == InvestmentOf(id, session.user_id)
    IN  /\ UNCHANGED <<users, nextInvId, session>>
        /\ IF found # <<>>
           THEN /\ transactions' = InsertTransaction(session.user_id,
                     found[1].symbol, "SELL", found[1].quantity,
                     found[1].buy_price)
                /\ investments' = DeleteInvestmentRow(id, session.user_id)
                /\ response' = Redirect("delete_investment", "dashboard",
                     <<Flash("success", "Deleted", <<found[1].symbol>>)>>)
           ELSE /\ response' = Redirect("delete_investment", "dashboard",
                     <<Flash("danger", "Investment not found.", <<>>)>>)
                /\ UNCHANGED <<investments, transactions>>

TxPageLimit == 100

Reverse(s) == [i \in 1..Len(s) |-> s[Len(s) + 1 - i]]

\* ORDER BY transaction_date DESC LIMIT 100
Transactions ==
  IF ~LoggedIn THEN Refused("transactions")
  ELSE LET mine == Reverse(TransactionsOfUser(session.user_id))
           shown == SubSeq(mine, 1, IF Len(mine) < TxPageLimit THEN Len(mine)
                                    ELSE TxPageLimit)
       IN  /\ response' = Render("transactions", "transactions.html", <<>>, shown)
           /\ UNCHANGED <<store, session>>

\* -------------------------------------------------------------- dashboard

RECURSIVE FSum(_)
\* 0.0 + s[1] + s[2] + ..., accumulated left to right
FSum(s) ==
  IF s = <<>> THEN Fin(0)
  ELSE FAdd(FSum(SubSeq(s, 1, Len(s) - 1)), s[Len(s)])

\* The orders in which "ORDER BY symbol" may return rows: sorted by symbol,
\* rows of equal symbol in any order.
OrderedBySymbol(rows) ==
  LET n == Len(rows)
      perms == {[i \in 1..n |-> rows[f[i]]] : f \in Permutations(1..n)}
  IN  {h \in perms : \A i \in 1..n : \A j \in i..n :
                       TextLeq(h[i].symbol, h[j].symbol)}

LookupFailed(lk) == GetLivePrice(lk) = None

LivePrice(lk) == IF LookupFailed(lk) THEN Fin(0) ELSE GetLivePrice(lk).val

CurrentValue(inv, lk) == FMul(inv.quantity, LivePrice(lk))

Cost(inv) == FMul(inv.quantity, inv.buy_price)

ValuationRow(inv, lk) ==
  LET live == LivePrice(lk)
      pct == IF FGtZero(inv.buy_price)
             THEN FPercent(FSub(live, inv.buy_price), inv.buy_price)
             ELSE Fin(0)
  IN  [id |-> inv.id, symbol |-> inv.symbol, category |-> inv.category,
       quantity |-> inv.quantity, buy_price |-> inv.buy_price,
       current_price |-> Round2(live),
       value |-> Round2(CurrentValue(inv, lk)),
       profit_loss |-> Round2(FSub(CurrentValue(inv, lk), Cost(inv))),
       pct_return |-> Round2(pct),
       purchase_date |-> inv.purchase_date]

RECURSIVE FirstSeen(_)
\* The keys of a dict filled in the order of s: each value once, first come.
FirstSeen(s) ==
  IF s = <<>> THEN <<>>
  ELSE LET before == FirstSeen(SubSeq(s, 1, Len(s) - 1))
       IN  IF s[Len(s)] \in Range(before) THEN before
           ELSE Append(before, s[Len(s)])

\* category_totals[inv["category"]] += inv["value"], over the rendered rows
CategoryTotal(rows, label) ==
  LET inCat(r) == r.category = label
      mine == SelectSeq(rows, inCat)
  IN  FSum([i \in 1..Len(mine) |-> mine[i].value])

Valuate(holdings, lks) ==
  LET n == Len(holdings)
      rows == [i \in 1..n |-> ValuationRow(holdings[i], lks[i])]
      total_value == FSum([i \in 1..n |-> CurrentValue(holdings[i], lks[i])])
      total_cost == FSum([i \in 1..n |-> Cost(holdings[i])])
      labels == FirstSeen([i \in 1..n |-> rows[i].category])
      failedIdx(i) == LookupFailed(lks[i])
      failed == SelectSeq([i \in 1..n |-> i], failedIdx)
  IN  [investments |-> rows,
       total_value |-> Round2(total_value),
       total_cost |-> Round2(total_cost),
       profit_loss |-> Round2(FSub(total_value, total_cost)),
       return_pct |-> Round2(IF FGtZero(total_cost)
                             THEN FPercent(FSub(total_value, total_cost), total_cost)
                             ELSE Fin(0)),
       category_labels |-> labels,
       category_values |-> [i \in 1..Len(labels) |-> CategoryTotal(rows, labels[i])],
       failed_symbols |-> [i \in 1..Len(failed) |-> holdings[failed[i]].symbol],
       has_investments |-> n > 0]

\* holdings: the rows as the query returned them; lks: what yfinance gives for
\* the lookup of each, in turn.
Dashboard(holdings, lks) ==
  IF ~LoggedIn THEN Refused("dashboard")
  ELSE /\ holdings \in OrderedBySymbol(InvestmentsOfUser(session.user_id))
       /\ Len(lks) = Len(holdings)
       /\ LET v == Valuate(holdings, lks)
          IN  response' = Render("dashboard", "dashboard.html",
                IF v.failed_symbols # <<>>
                THEN <<Flash("warning", "Could not fetch prices for",
                             v.failed_symbols)>>
                ELSE <<>>,
                [investments |-> v.investments, total_value |-> v.total_value,
                 total_cost |-> v.total_cost, profit_loss |-> v.profit_loss,
                 return_pct |-> v.return_pct,
                 category_labels |-> v.category_labels,
                 category_values |-> v.category_values,
                 has_investments |-> v.has_investments])
       /\ UNCHANGED <<store, session>>

\* /history/<symbol>: six months of closing prices of any symbol.
History(symbolRaw, lk) ==
  IF ~LoggedIn THEN Refused("history")
  ELSE LET symbol == Upper(symbolRaw)
       IN  /\ UNCHANGED <<store, session>>
           /\ response' =
                IF lk.raises
                THEN Redirect("history", "dashboard",
                       <<Flash("danger", "Error fetching history", <<symbol>>)>>)
                ELSE IF lk.closes = <<>>
                THEN Redirect("history", "dashboard",
                       <<Flash("warning", "No historical data found", <<symbol>>)>>)
                ELSE Render("history", "history.html", <<>>,
                       [symbol |-> symbol,
                        dates |-> [i \in 1..Len(lk.closes) |-> i],
                        prices |-> [i \in 1..Len(lk.closes) |-> Round2(lk.closes[i])],
                        stock_name |-> StockName(symbol, lk)])

\* -------------------------------------------------------------------- CSV
\* A CSV text is its sequence of lines, a line its characters.  The fields of
\* the model hold no line break, so a record is one line.

Comma == ","
Quote == "\""

RECURSIVE DoubleQuotes(_)
DoubleQuotes(f) ==
  IF f = <<>> THEN <<>>
  ELSE (IF Head(f) = Quote THEN <<Quote, Quote>> ELSE <<Head(f)>>)
       \o DoubleQuotes(Tail(f))

\* csv.writer, QUOTE_MINIMAL: a field holding the delimiter or the quote
\* character is written in quotes, its quotes doubled.
WriteField(f) ==
  IF \E i \in 1..Len(f) : f[i] \in {Comma, Quote}
  THEN <<Quote>> \o DoubleQuotes(f) \o <<Quote>>
  ELSE f

RECURSIVE WriteRow(_)
WriteRow(fields) ==
  IF fields = <<>> THEN <<>>
  ELSE IF Len(fields) = 1 THEN WriteField(fields[1])
  ELSE WriteField(Head(fields)) \o <<Comma>> \o WriteRow(Tail(fields))

RECURSIVE CsvField(_, _, _, _)
\* csv.reader over one field of a line, from position i: mode is where the
\* scanner stands (at the start of the field, in an unquoted field, in a
\* quoted field, after a quote met in a quoted field).  Gives the text of the
\* field, and the position after the delimiter that ended it (0 when the line
\* ended it).
CsvField(line, i, mode, cur) ==
  IF i > Len(line) THEN [text |-> cur, next |-> 0]
  ELSE LET c == line[i]
       IN  IF c = Comma /\ mode # "quoted" THEN [text |-> cur, next |-> i + 1]
           ELSE IF c = Quote /\ mode = "start"
           THEN CsvField(line, i + 1, "quoted", cur)
           ELSE IF c = Quote /\ mode = "quoted"
           THEN CsvField(line, i + 1, "quote_in_quoted", cur)
           ELSE IF mode = "quote_in_quoted"
           THEN CsvField(line, i + 1, IF c = Quote THEN "quoted" ELSE "unquoted",
                         Append(cur, c))
           ELSE CsvField(line, i + 1, IF mode = "quoted" THEN "quoted" ELSE "unquoted",
                         Append(cur, c))

RECURSIVE CsvScan(_, _, _)
\* The fields of a line from position i on, after those already read.
CsvScan(line, i, fields) ==
  LET f == CsvField(line, i, "start", <<>>)
  IN  IF f.next = 0 THEN Append(fields, f.text)
      ELSE CsvScan(line, f.next, Append(fields, f.text))

\* The fields of a line; an empty line has none.
ReadRow(line) == IF line = <<>> THEN <<>> ELSE CsvScan(line, 1, <<>>)

KeySymbol == <<"s", "y", "m", "b", "o", "l">>
KeyCategory == <<"c", "a", "t", "e", "g", "o", "r", "y">>
KeyQuantity == <<"q", "u", "a", "n", "t", "i", "t", "y">>
KeyBuyPrice == <<"b", "u", "y", "_", "p", "r", "i", "c", "e">>
KeyPurchaseDate == <<"p", "u", "r", "c", "h", "a", "s", "e", "_", "d", "a", "t", "e">>
TextOther == <<"O", "t", "h", "e", "r">>

\* export_csv's body: the header, then one record per holding of the user.
ExportText(uid) ==
  LET rows == InvestmentsOfUser(uid)
  IN  <<WriteRow(<<KeySymbol, KeyCategory, KeyQuantity, KeyBuyPrice,
                   KeyPurchaseDate>>)>>
      \o [i \in 1..Len(rows) |->
            WriteRow(<<rows[i].symbol, rows[i].category,
                       TextOfFloat(rows[i].quantity),
                       TextOfFloat(rows[i].buy_price),
                       NatToText(rows[i].purchase_date)>>)]

ExportCsv ==
  IF ~LoggedIn THEN Refused("export_csv")
  ELSE /\ response' = [op |-> "export_csv", status |-> "text/csv", to |-> "",
                       flash |-> <<>>, page |-> ExportText(session.user_id)]
       /\ UNCHANGED <<store, session>>

\* One value of a csv.DictReader row: the key is missing when the header has
\* no such column, the value is None when the record is shorter than the
\* header, and a column named twice keeps its last field.
DictGet(header, fields, key) ==
  LET at == {i \in 1..Len(header) : header[i] = key}
  IN  IF at = {} THEN [has |-> FALSE, none |-> FALSE, text |-> <<>>]
      ELSE LET i == CHOOSE j \in at : \A m \in at : m <= j
           IN  IF i <= Len(fields)
               THEN [has |-> TRUE, none |-> FALSE, text |-> fields[i]]
               ELSE [has |-> TRUE, none |-> TRUE, text |-> <<>>]

\* float(row.get(key, 0))
FloatOfField(d) ==
  IF ~d.has THEN Ok(Fin(0))
  ELSE IF d.none THEN Raise("TypeError")
  ELSE FloatOfText(d.text)

\* What the loop body of import_csv does with one record: "skip" (continue),
\* "raise" (an exception leaves the loop), or "insert" with the values bound.
ImportRow(header, fields) ==
  LET symbol == DictGet(header, fields, KeySymbol)
      category == DictGet(header, fields, KeyCategory)
      q == FloatOfField(DictGet(header, fields, KeyQuantity))
      p == FloatOfField(DictGet(header, fields, KeyBuyPrice))
      out(do) == [do |-> do,
                  symbol |-> Upper(Strip(symbol.text)),
                  category |-> IF category.has THEN Strip(category.text)
                               ELSE TextOther,
                  quantity |-> q.val, buy_price |-> p.val]
  IN  IF ~symbol.has \/ symbol.none \/ symbol.text = <<>> THEN out("skip")
      ELSE IF q.err # "" \/ p.err # "" THEN out("raise")
      ELSE IF FLeqZero(q.val) \/ FLeqZero(p.val) THEN out("skip")
      ELSE IF category.has /\ category.none THEN out("raise")
      ELSE IF BindsNull(q.val) \/ BindsNull(p.val) THEN out("raise")
      ELSE out("insert")

\* The records csv.DictReader yields: the first line is the header, and lines
\* without fields are passed over.
DictRows(lines) ==
  LET body == [i \in 1..(Len(lines) - 1) |-> ReadRow(lines[i + 1])]
      nonEmpty(f) == f # <<>>
  IN  SelectSeq(body, nonEmpty)

ImportOutcomes(lines) ==
  IF lines = <<>> THEN <<>>
  ELSE LET header == ReadRow(lines[1])
           recs == DictRows(lines)
       IN  [i \in 1..Len(recs) |-> ImportRow(header, recs[i])]

RECURSIVE InsertImported(_, _, _, _)
\* The INSERTs of the loop, in order, ids counted up from id.
InsertImported(rows, id, uid, outs) ==
  IF outs = <<>> THEN rows
  ELSE LET o == Head(outs)
       IN  IF o.do = "insert"
           THEN InsertImported(
                  InsertInvestment(rows, id, uid, o.symbol, o.category,
                                   o.quantity, o.buy_price),
                  id + 1, uid, Tail(outs))
           ELSE InsertImported(rows, id, uid, Tail(outs))

ImportCsvNoFile ==
  IF ~LoggedIn THEN Refused("import_csv")
  ELSE /\ response' = Redirect("import_csv", "dashboard",
            <<Flash("danger", "No file selected.", <<>>)>>)
       /\ UNCHANGED <<store, session>>

\* The loop of import_csv over the records read, outs[i] being what the loop
\* body does with the i-th: the INSERTs, committed together when no record
\* raised.
ImportRecords(outs) ==
  IF ~LoggedIn THEN Refused("import_csv")
  ELSE
    LET raised == \E i \in 1..Len(outs) : outs[i].do = "raise"
        isInsert(o) == o.do = "insert"
        imported == Len(SelectSeq(outs, isInsert))
    IN  /\ UNCHANGED <<users, transactions, session>>
        /\ IF raised
           THEN \* the connection is dropped uncommitted: no row is kept
                /\ response' = Redirect("import_csv", "dashboard",
                     <<Flash("danger", "Error importing CSV", <<>>)>>)
                /\ UNCHANGED <<investments, nextInvId>>
           ELSE /\ investments' = InsertImported(investments, nextInvId,
                                                 session.user_id, outs)
                /\ nextInvId' = nextInvId + imported
                /\ response' = Redirect("import_csv", "dashboard",
                     <<Flash("success", "Successfully imported", <<imported>>)>>)

\* import_csv of an uploaded file, given as its lines
ImportCsv(lines) == ImportRecords(ImportOutcomes(lines))

\* ---------------------------------------------------------- the connection
\* add_investment and delete_investment statement by statement.  get_db()
\* opens a sqlite3 connection in the module's default isolation level: the
\* first INSERT or DELETE begins a transaction, which holds every write of
\* the connection until conn.commit().  Requests are served one at a time.

NoConn ==
  [pc |-> "closed", op |-> "", form |-> <<>>, lk |-> <<>>, id |-> 0,
   investments |-> <<>>, transactions |-> <<>>, nextInvId |-> 0]

\* A connection whose every statement is committed as it is executed.
RecoveredAutocommit(committed, pending) == pending

\* What the database file holds of a table once the process has died with the
\* connection open: the transaction was never committed, and SQLite rolls its
\* journal back.
Recovered(committed, pending) == committed

\* add_investment up to conn = get_db(): a request that is refused is
\* answered before any connection is opened.
AddInvestmentOpen(symbolRaw, categoryRaw, quantityRaw, priceRaw, lk) ==
  /\ conn.pc = "closed"
  /\ IF \/ ~LoggedIn
        \/ Upper(Strip(symbolRaw)) = <<>> \/ Strip(categoryRaw) = <<>>
        \/ InvalidAmounts(FloatOfText(quantityRaw), FloatOfText(priceRaw))
     THEN /\ AddInvestment(symbolRaw, categoryRaw, quantityRaw, priceRaw, lk)
          /\ UNCHANGED conn
     ELSE /\ conn' = [pc |-> "insert_investment", op |-> "add_investment",
                      form |-> <<symbolRaw, categoryRaw, quantityRaw, priceRaw>>,
                      lk |-> lk, id |-> 0, investments |-> investments,
                      transactions |-> transactions, nextInvId |-> nextInvId]
          /\ UNCHANGED <<store, session, response>>

\* The first write of add_investment: INSERT INTO investments.  An
\* IntegrityError is caught, the error flashed and the connection closed.
AddInvestmentFirstWrite ==
  /\ conn.pc = "insert_investment"
  /\ LET q == FloatOfText(conn.form[3])
         p == FloatOfText(conn.form[4])
     IN  IF BindsNull(q.val) \/ BindsNull(p.val)
         THEN /\ AddInvestment(conn.form[1], conn.form[2], conn.form[3],
                               conn.form[4], conn.lk)
              /\ conn' = NoConn
         ELSE /\ conn' = [conn EXCEPT
                   !.investments = InsertInvestment(investments, nextInvId,
                       session.user_id, Upper(Strip(conn.form[1])),
                       Strip(conn.form[2]), q.val, p.val),
                   !.nextInvId = nextInvId + 1,
                   !.pc = "insert_transaction"]
              /\ UNCHANGED <<store, session, response>>

\* The second write of add_investment: INSERT INTO transactions, 'BUY'.
AddInvestmentSecondWrite ==
  /\ conn.pc = "insert_transaction"
  /\ conn' = [conn EXCEPT
       !.transactions = InsertTransaction(session.user_id,
           Upper(Strip(conn.form[1])), "BUY", FloatOfText(conn.form[3]).val,
           FloatOfText(conn.form[4]).val),
       !.pc = "commit"]
  /\ UNCHANGED <<store, session, response>>

\* delete_investment up to its SELECT: without a session, or without the
\* row, it answers without writing.
DeleteInvestmentOpen(id) ==
  /\ conn.pc = "closed"
  /\ IF ~LoggedIn \/ InvestmentOf(id, session.user_id) = <<>>
     THEN DeleteInvestment(id) /\ UNCHANGED conn
     ELSE /\ conn' = [pc |-> "insert_sell", op |-> "delete_investment",
                      form |-> <<>>, lk |-> <<>>, id |-> id,
                      investments |-> investments,
                      transactions |-> transactions, nextInvId |-> nextInvId]
          /\ UNCHANGED <<store, session, response>>

\* The first write of delete_investment: INSERT INTO transactions, 'SELL',
\* with the values of the row selected.
DeleteInvestmentFirstWrite ==
  /\ conn.pc = "insert_sell"
  /\ LET found == InvestmentOf(conn.id, session.user_id)
     IN  conn' = [conn EXCEPT
           !.transactions = InsertTransaction(session.user_id, found[1].symbol,
               "SELL", found[1].quantity, found[1].buy_price),
           !.pc = "delete_row"]
  /\ UNCHANGED <<store, session, response>>

\* The second write of delete_investment: DELETE FROM investments.
DeleteInvestmentSecondWrite ==
  /\ conn.pc = "delete_row"
  /\ conn' = [conn EXCEPT
       !.investments = DeleteInvestmentRow(conn.id, session.user_id),
       !.pc = "commit"]
  /\ UNCHANGED <<store, session, response>>

\* conn.commit(), and the answer of the handler that follows it.
Commit ==
  /\ conn.pc = "commit"
  /\ investments' = conn.investments
  /\ transactions' = conn.transactions
  /\ nextInvId' = conn.nextInvId
  /\ response' =
       IF conn.op = "add_investment"
       THEN Redirect("add_investment", "dashboard",
              (IF GetLivePrice(conn.lk) = None
               THEN <<Flash("warning", "Could not verify symbol",
                            <<Upper(Strip(conn.form[1]))>>)>>
               ELSE <<>>)
              \o <<Flash("success", "Successfully added",
                         <<FloatOfText(conn.form[3]).val,
                           Upper(Strip(conn.form[1]))>>)>>)
       ELSE Redirect("delete_investment", "dashboard",
              <<Flash("success", "Deleted",
                      <<InvestmentOf(conn.id, session.user_id)[1].symbol>>)>>)
  /\ conn' = NoConn
  /\ UNCHANGED <<users, session>>

\* The process dies with the connection open: no answer is sent, and the
\* database is what recovery leaves of it.  The session is a cookie of the
\* browser and outlives the process.
Crash ==
  /\ conn.pc # "closed"
  /\ investments' = Recovered(investments, conn.investments)
  /\ transactions' = Recovered(transactions, conn.transactions)
  /\ nextInvId' = Recovered(nextInvId, conn.nextInvId)
  /\ response' = [op |-> conn.op, status |-> "crashed", to |-> conn.pc,
                  flash |-> <<>>, page |-> <<>>]
  /\ conn' = NoConn
  /\ UNCHANGED <<users, session>>

\* ----------------------------------------------------------------- inputs
\* The requests the model sends: texts typed into the forms, ids put in the
\* URLs, files uploaded, and what yfinance answers.

TextAli == <<"a", "l", "i">>
TextBob == <<"b", "o", "b">>
TextSecret == <<"s", "e", "c", "r", "e", "t">>
TextDragon == <<"d", "r", "a", "g", "o", "n", "1">>
TextShort == <<"s", "h", "o", "r", "t">>

RegisterForms ==
  { <<TextAli, TextSecret>>,
    <<<<" ">> \o TextBob \o <<" ">>, TextDragon>>,
    <<<<"a", "l", " ">>, TextSecret>>,
    <<TextAli, TextShort>> }

LoginForms ==
  { <<TextAli, TextSecret>>,
    <<TextBob \o <<" ">>, TextDragon>>,
    <<TextAli, TextDragon>>,
    <<<<"a", "l">>, TextSecret>> }

SymbolA == <<" ", "a", " ">>
CategoryX == <<"x">>
TextFive == <<"5">>
TextTwo == <<" ", "2", ".", "0">>
TextTwenty == <<"2", "0">>

\* one form that is accepted, and one for each way of being refused
AddForms ==
  { <<SymbolA, CategoryX, TextFive, TextTwenty>>,
    <<<<" ">>, CategoryX, TextFive, TextTwenty>>,
    <<SymbolA, <<>>, TextFive, TextTwenty>>,
    <<SymbolA, CategoryX, <<"x">>, TextTwenty>>,
    <<SymbolA, CategoryX, <<"-", "1">>, TextTwenty>>,
    <<SymbolA, CategoryX, TextFive, <<"0">>>>,
    <<SymbolA, CategoryX, TextFive, <<>>>>,
    <<SymbolA, CategoryX, <<"n", "a", "n">>, TextTwenty>> }

EditForms ==
  { <<TextFive, TextTwenty>>,
    <<TextTwo, TextTwenty>>,
    <<<<"x">>, TextTwenty>>,
    <<TextTwo, <<"0">>>>,
    <<TextTwo, <<"-", "1">>>>,
    <<<<"n", "a", "n">>, TextTwenty>> }

\* The ids a URL may name: of rows that exist, that existed, or not yet.
UrlIds(cap) == 1..cap

LookupClose(price) == Lookup(FALSE, <<price>>, FALSE, EmptyInfo)
LookupRaises == Lookup(TRUE, <<>>, FALSE, EmptyInfo)
\* no history, and an info dictionary without currentPrice
LookupEmpty == Lookup(FALSE, <<>>, FALSE, EmptyInfo)
LookupCurrent(price) ==
  Lookup(FALSE, <<>>, FALSE, [currentPrice |-> price, longName |-> <<"A", "c", "m", "e">>])
LookupInfoRaises == Lookup(FALSE, <<>>, TRUE, EmptyInfo)

Lookups == { LookupClose(Fin(150000)), LookupRaises }
OneLookup == { LookupClose(Fin(150000)) }

HeaderLine == WriteRow(<<KeySymbol, KeyCategory, KeyQuantity, KeyBuyPrice>>)

\* a good record, one without a symbol, one of negative quantity
FileMixed ==
  << HeaderLine,
     <<"a", ",", "x", ",", "5", ",", "2", "0">>,
     <<",", "O", "t", "h", "e", "r", ",", "5", ",", "1", "0">>,
     <<"a", ",", "x", ",", "-", "1", ",", "1", "0">> >>

\* a good record, then one that stops after the category
FileShortRow ==
  << HeaderLine,
     <<"a", ",", "x", ",", "5", ",", "2", "0">>,
     <<"a", ",", "x">> >>

Files == { FileMixed, FileShortRow }

\* The files as csv.DictReader and the loop body read them, read once.
FilesRead == { ImportOutcomes(f) : f \in Files }

\* ------------------------------------------------------------ the requests

DoRegister(forms) == \E f \in forms : Register(f[1], f[2])

DoLogin(forms) == \E f \in forms : Login(f[1], f[2])

\* cap: the bound on the rows ever inserted, see MaxRows
DoAddInvestment(forms, lks, cap) ==
  \E f \in forms : \E lk \in lks :
    /\ AddInvestment(f[1], f[2], f[3], f[4], lk)
    /\ nextInvId' <= cap + 1

DoEditInvestmentGet(ids) == \E id \in ids : EditInvestmentGet(id)

DoEditInvestment(ids, forms) ==
  \E id \in ids : \E f \in forms : EditInvestment(id, f[1], f[2])

DoDeleteInvestment(ids) == \E id \in ids : DeleteInvestment(id)

DoDashboard(lks) ==
  \E n \in 0..Len(investments) : \E l \in [1..n -> lks] :
    \E h \in OrderedBySymbol(IF LoggedIn THEN InvestmentsOfUser(session.user_id)
                             ELSE <<>>) :
      Dashboard(h, l)

\* reads: uploaded files, each as read by ImportOutcomes
DoImportCsv(reads, cap) ==
  \E outs \in reads : ImportRecords(outs) /\ nextInvId' <= cap + 1

DoHistory(lks) == \E lk \in lks : History(<<"a">>, lk)

Init ==
  /\ users = <<>>
  /\ investments = <<>>
  /\ transactions = <<>>
  /\ nextInvId = 1
  /\ session = EmptySession
  /\ response = [op |-> "", status |-> "", to |-> "", flash |-> <<>>, page |-> <<>>]
  /\ conn = NoConn

Next ==
  \/ DoRegister(RegisterForms) /\ UNCHANGED conn
  \/ DoLogin(LoginForms) /\ UNCHANGED conn
  \/ Logout /\ UNCHANGED conn
  \/ DoDashboard(OneLookup) /\ UNCHANGED conn
  \/ DoAddInvestment(AddForms, OneLookup, MaxRows) /\ UNCHANGED conn
  \/ DoEditInvestment(UrlIds(MaxRows), EditForms) /\ UNCHANGED conn
  \/ DoDeleteInvestment(UrlIds(MaxRows)) /\ UNCHANGED conn
  \/ Transactions /\ UNCHANGED conn
  \/ ExportCsv /\ UNCHANGED conn
  \/ DoImportCsv(FilesRead, MaxRows) /\ UNCHANGED conn
  \/ DoHistory({LookupRaises}) /\ UNCHANGED conn

Spec == Init /\ [][Next]_vars

\* ------------------------------------------- the dashboard under the market

\* Holdings of two symbols in two categories, one share each.
DashAddForms ==
  { <<<<"a">>, <<"x">>, <<"1">>, <<"1", "0">>>>,
    <<<<"b">>, <<"x">>, <<"1">>, <<"1", "0">>>>,
    <<<<"b">>, <<"y">>, <<"1">>, <<"1", "0">>>> }

\* What a lookup may give: a close of 10.004, an exception, nothing at all, a
\* currentPrice only, an exception on reading the info.
DashLookups ==
  { LookupClose(Fin(10004)), LookupRaises, LookupEmpty,
    LookupCurrent(Fin(150000)), LookupInfoRaises }

NextDash ==
  \/ Home /\ UNCHANGED conn
  \/ RegisterGet /\ UNCHANGED conn
  \/ LoginGet /\ UNCHANGED conn
  \/ DoRegister({<<TextAli, TextSecret>>}) /\ UNCHANGED conn
  \/ DoLogin({<<TextAli, TextSecret>>}) /\ UNCHANGED conn
  \/ Logout /\ UNCHANGED conn
  \/ AddInvestmentGet /\ UNCHANGED conn
  \/ DoAddInvestment(DashAddForms, Lookups, MaxHoldings) /\ UNCHANGED conn
  \/ DoEditInvestmentGet(UrlIds(MaxHoldings)) /\ UNCHANGED conn
  \/ DoDashboard(DashLookups) /\ UNCHANGED conn
  \/ DoHistory(DashLookups) /\ UNCHANGED conn

SpecDash == Init /\ [][NextDash]_vars

\* ------------------------------------------------- exports and uploads

\* a record whose symbol is two spaces
FileBlankSymbol ==
  << HeaderLine,
     <<" ", " ", ",", "x", ",", "5", ",", "2", "0">> >>

\* a file without a category column
FileNoCategory ==
  << WriteRow(<<KeySymbol, KeyQuantity, KeyBuyPrice>>),
     <<"b", ",", "1", ",", "1", "0">> >>

CsvFiles == Files \cup { FileBlankSymbol, FileNoCategory }

CsvFilesRead == { ImportOutcomes(f) : f \in CsvFiles }

\* a holding whose category holds a comma and a quote
CsvAddForms ==
  { <<<<"a">>, <<"x", ",", "\"", "y">>, <<"0", ".", "5">>, <<"1", "0">>>> }

CsvEditForms == { <<TextTwo, TextTwenty>> }

CsvAccounts == { <<TextAli, TextSecret>>, <<TextBob, TextDragon>> }

\* The upload of what export_csv gives for the portfolio of user uid.
DoImportExported(cap) ==
  \E i \in 1..Len(users) :
    ImportCsv(ExportText(users[i].id)) /\ nextInvId' <= cap + 1

NextCsv ==
  \/ DoRegister(CsvAccounts) /\ UNCHANGED conn
  \/ DoLogin(CsvAccounts) /\ UNCHANGED conn
  \/ Logout /\ UNCHANGED conn
  \/ DoAddInvestment(CsvAddForms, OneLookup, MaxHoldings) /\ UNCHANGED conn
  \/ DoEditInvestment(UrlIds(MaxHoldings), CsvEditForms) /\ UNCHANGED conn
  \/ ExportCsv /\ UNCHANGED conn
  \/ ImportCsvNoFile /\ UNCHANGED conn
  \/ DoImportCsv(CsvFilesRead, MaxHoldings) /\ UNCHANGED conn
  \/ DoImportExported(MaxHoldings) /\ UNCHANGED conn

SpecCsv == Init /\ [][NextCsv]_vars

\* ------------------------------------- requests that may die on the way

\* an accepted form, a refused one, and one the NOT NULL column refuses
CrashAddForms ==
  { <<SymbolA, CategoryX, TextFive, TextTwenty>>,
    <<SymbolA, CategoryX, <<"0">>, TextTwenty>>,
    <<SymbolA, CategoryX, <<"n", "a", "n">>, TextTwenty>> }

DoAddInvestmentOpen(forms, lks, cap) ==
  \E f \in forms : \E lk \in lks :
    /\ nextInvId <= cap
    /\ AddInvestmentOpen(f[1], f[2], f[3], f[4], lk)

DoDeleteInvestmentOpen(ids) == \E id \in ids : DeleteInvestmentOpen(id)

NextCrash ==
  \/ conn.pc = "closed" /\ DoRegister(CsvAccounts) /\ UNCHANGED conn
  \/ conn.pc = "closed" /\ DoLogin(CsvAccounts) /\ UNCHANGED conn
  \/ conn.pc = "closed" /\ Logout /\ UNCHANGED conn
  \/ conn.pc = "closed" /\ Transactions /\ UNCHANGED conn
  \/ DoAddInvestmentOpen(CrashAddForms, Lookups, MaxHoldings)
  \/ AddInvestmentFirstWrite
  \/ AddInvestmentSecondWrite
  \/ DoDeleteInvestmentOpen(UrlIds(MaxHoldings))
  \/ DeleteInvestmentFirstWrite
  \/ DeleteInvestmentSecondWrite
  \/ Commit
  \/ Crash

SpecCrash == Init /\ [][NextCrash]_vars

\* ------------------------------------------------------------- properties

CountType(log, type) ==
  Cardinality({i \in 1..Len(log) : log[i].transaction_type = type})

AddSucceeded(r) == r.op = "add_investment" /\ r.to = "dashboard"

DeleteSucceeded(r) ==
  /\ r.op = "delete_investment"
  /\ r.flash # <<>>
  /\ r.flash[1].cat = "success"

EditSucceeded(r) ==
  /\ r.op = "edit_investment"
  /\ r.flash # <<>>
  /\ r.flash[1].cat = "success"

LastOf(s) == s[Len(s)]

\* The number a form text denotes, when it denotes one.
Amount(text) == FloatOfText(text).val

\* C1: a successful add_investment appends exactly one BUY transaction with
\* the submitted quantity and price and one investment row with them; a
\* successful delete_investment appends exactly one SELL transaction with the
\* quantity and price the row held and removes the row; so each step changes
\* the number of BUY rows by one exactly when it is a successful add, and the
\* number of SELL rows by one exactly when it is a successful delete.
C1_Step ==
  /\ \A f \in AddForms : \A lk \in Lookups :
       (AddSucceeded(response') /\ AddInvestment(f[1], f[2], f[3], f[4], lk))
       => /\ Len(transactions') = Len(transactions) + 1
          /\ SubSeq(transactions', 1, Len(transactions)) = transactions
          /\ LastOf(transactions').transaction_type = "BUY"
          /\ LastOf(transactions').user_id = session.user_id
          /\ LastOf(transactions').quantity = Amount(f[3])
          /\ LastOf(transactions').price = Amount(f[4])
          /\ Len(investments') = Len(investments) + 1
          /\ SubSeq(investments', 1, Len(investments)) = investments
          /\ LastOf(investments').user_id = session.user_id
          /\ LastOf(investments').quantity = Amount(f[3])
          /\ LastOf(investments').buy_price = Amount(f[4])
          /\ LastOf(investments').symbol = LastOf(transactions').symbol
  /\ \A id \in UrlIds(MaxRows + 1) :
       (DeleteSucceeded(response') /\ DeleteInvestment(id))
       => \E i \in 1..Len(investments) :
            /\ investments[i].id = id
            /\ investments[i].user_id = session.user_id
            /\ Len(transactions') = Len(transactions) + 1
            /\ SubSeq(transactions', 1, Len(transactions)) = transactions
            /\ LastOf(transactions').transaction_type = "SELL"
            /\ LastOf(transactions').user_id = session.user_id
            /\ LastOf(transactions').symbol = investments[i].symbol
            /\ LastOf(transactions').quantity = investments[i].quantity
            /\ LastOf(transactions').price = investments[i].buy_price
            /\ investments' = [j \in 1..(Len(investments) - 1) |->
                                 IF j < i THEN investments[j]
                                 ELSE investments[j + 1]]
  /\ CountType(transactions', "BUY") =
       CountType(transactions, "BUY") + (IF AddSucceeded(response') THEN 1 ELSE 0)
  /\ CountType(transactions', "SELL") =
       CountType(transactions, "SELL")
       + (IF DeleteSucceeded(response') THEN 1 ELSE 0)

C1_AddAndDeleteAreLogged == [][C1_Step]_vars

\* C1's case: a row was added with quantity 5, edited to 2 and deleted, and
\* the log holds the BUY of 5 and the SELL of 2.
C1_Witness ==
  /\ DeleteSucceeded(response)
  /\ investments = <<>>
  /\ Len(transactions) = 2
  /\ transactions[1].transaction_type = "BUY"
  /\ transactions[1].quantity = Fin(5000)
  /\ transactions[2].transaction_type = "SELL"
  /\ transactions[2].quantity = Fin(2000)
  /\ transactions[2].price = Fin(20000)

IsPrefix(a, b) == Len(a) <= Len(b) /\ SubSeq(b, 1, Len(a)) = a

\* C2: the transaction log is append-only: every step keeps the rows it
\* held, unchanged and in place; only add_investment and delete_investment
\* ever change the table, so edit_investment and import_csv leave it as it
\* was, also when they change or insert investments.
C2_Step ==
  /\ IsPrefix(transactions, transactions')
  /\ transactions' # transactions
       => response'.op \in {"add_investment", "delete_investment"}
  /\ response'.op \in {"edit_investment", "import_csv"}
       => transactions' = transactions

C2_LogIsAppendOnly == [][C2_Step]_vars

\* C2's case: an edit changed the row (bought as 5, now 2) and the log still
\* holds the one BUY of 5.
C2_Witness ==
  /\ EditSucceeded(response)
  /\ Len(investments) = 1
  /\ investments[1].quantity = Fin(2000)
  /\ Len(transactions) = 1
  /\ transactions[1].quantity = Fin(5000)

\* C3: every investment row has quantity > 0 and buy_price > 0.
C3_AmountsArePositive ==
  \A i \in 1..Len(investments) :
    FGtZero(investments[i].quantity) /\ FGtZero(investments[i].buy_price)

\* C3's case: an edit to quantity nan, which the handler's check lets pass,
\* was refused by the store, and the row is as it was.
C3_Witness ==
  /\ response.op = "edit_investment"
  /\ response.status = "error500"
  /\ Len(investments) = 1
  /\ investments[1].quantity = Fin(5000)

\* No row of the session's user has this id.
NotOwned(id) ==
  ~\E i \in 1..Len(investments) :
     investments[i].id = id /\ investments[i].user_id = session.user_id

RowsOfUser(rows, uid) ==
  LET mine(r) == r.user_id = uid IN SelectSeq(rows, mine)

\* C4: an edit_investment or delete_investment naming an id that no row of
\* the session's user has changes neither table; and a step that changes the
\* rows of a user is a request made under that user's session.
C4_Step ==
  /\ (response'.op = "edit_investment" /\ LoggedIn)
       => \A id \in UrlIds(MaxRows + 1) : \A f \in EditForms :
            (NotOwned(id) /\ EditInvestment(id, f[1], f[2]))
            => investments' = investments /\ transactions' = transactions
  /\ (response'.op = "delete_investment" /\ LoggedIn)
       => \A id \in UrlIds(MaxRows + 1) :
            (NotOwned(id) /\ DeleteInvestment(id))
            => investments' = investments /\ transactions' = transactions
  /\ \A i \in 1..Len(users) :
       RowsOfUser(investments', users[i].id) # RowsOfUser(investments, users[i].id)
       => LoggedIn /\ session.user_id = users[i].id

C4_OnlyTheOwnerChangesRows == [][C4_Step]_vars

\* C4's case: the session's user asked to edit or delete the row of another
\* user (the one id the requests of Spec name), was told it was not found,
\* and the row and the log are there as they were.
C4_Witness ==
  /\ LoggedIn
  /\ response.op \in {"edit_investment", "delete_investment"}
  /\ response.flash = <<Flash("danger", "Investment not found.", <<>>)>>
  /\ Len(investments) = 1
  /\ investments[1].user_id # session.user_id
  /\ Len(transactions) = 1

GatedOps ==
  {"dashboard", "add_investment", "edit_investment", "delete_investment",
   "transactions", "export_csv", "import_csv", "history"}

\* C5: a gated operation requested without a session answers with the
\* redirect to login, whatever the store holds, and changes nothing; a session
\* comes to name a user only by a login giving a registered username and the
\* password it was registered with; it ends only by logout, and logout always
\* ends it.
C5_Step ==
  /\ (~LoggedIn /\ response'.op \in GatedOps)
       => /\ response' = Redirect(response'.op, "login",
               <<Flash("warning", "Please log in to access this page.", <<>>)>>)
          /\ UNCHANGED <<store, session>>
  /\ (LoggedIn' /\ session' # session)
       => /\ response'.op = "login"
          /\ \E i \in 1..Len(users) : \E f \in LoginForms :
               /\ Strip(f[1]) = users[i].username
               /\ users[i].password = GeneratePasswordHash(f[2])
               /\ Login(f[1], f[2])
               /\ session'.user_id = users[i].id
               /\ session'.username = users[i].username
  /\ (~LoggedIn' /\ session' # session) => response'.op = "logout"
  /\ response'.op = "logout" => ~LoggedIn'

C5_SessionGate == [][C5_Step]_vars

\* C5's case: after a logout, with a user's row in the store, the export was
\* asked for and refused.
C5_Witness ==
  /\ ~LoggedIn
  /\ response.op = "export_csv"
  /\ response.to = "login"
  /\ investments # <<>>

\* The text is no number, or a number that is not positive.
BadAmount(text) ==
  LET r == FloatOfText(text) IN r.err # "" \/ ~FGtZero(r.val)

\* The add forms with an empty symbol or category, or a bad quantity or price.
C6_BadAddForms ==
  {f \in AddForms : \/ Strip(f[1]) = <<>> \/ Strip(f[2]) = <<>>
                    \/ BadAmount(f[3]) \/ BadAmount(f[4])}

\* The edit forms with a bad quantity or price.
C6_BadEditForms == {f \in EditForms : BadAmount(f[1]) \/ BadAmount(f[2])}

\* C6: add_investment with an empty symbol or category or a bad quantity or
\* price, edit_investment with a bad quantity or price, and register with a
\* username under 3 characters, a password under 6 or a username some user
\* has, leave the three tables as they were.
C6_Step ==
  /\ (response'.op = "add_investment" /\ LoggedIn)
       => \A f \in C6_BadAddForms : \A lk \in Lookups :
            AddInvestment(f[1], f[2], f[3], f[4], lk) => UNCHANGED store
  /\ (response'.op = "edit_investment" /\ LoggedIn)
       => \A id \in UrlIds(MaxRows + 1) : \A f \in C6_BadEditForms :
            EditInvestment(id, f[1], f[2]) => UNCHANGED store
  /\ response'.op = "register"
       => \A f \in RegisterForms :
            ( /\ \/ Len(Strip(f[1])) < 3
                 \/ Len(f[2]) < 6
                 \/ \E i \in 1..Len(users) : users[i].username = Strip(f[1])
              /\ Register(f[1], f[2]) )
            => UNCHANGED store

C6_RejectedRequestsChangeNothing == [][C6_Step]_vars

\* C6's case: a registration under a name already taken was refused, with
\* the user and a row of theirs in the store.
C6_Witness ==
  /\ response.op = "register"
  /\ response.flash =
       <<Flash("danger", "Username already exists. Please choose another.", <<>>)>>
  /\ users # <<>>
  /\ investments # <<>>

\* The lookup gave no price: it raised, or the history was empty and the info
\* gave no currentPrice either.
C7_LookupFails(lk) ==
  \/ lk.raises
  \/ lk.closes = <<>> /\ (lk.infoRaises \/ "currentPrice" \notin DOMAIN lk.info)

C7_Price(lk) ==
  IF lk.closes # <<>> THEN lk.closes[Len(lk.closes)] ELSE lk.info.currentPrice

\* C7: the dashboard gives one row for each holding, in the order of the
\* query; the row of a holding whose lookup failed has current_price 0, value
\* 0 and profit_loss minus its cost, and its symbol is in the warning;
\* total_cost is the sum of all costs and total_value the sum of the values of
\* the holdings whose lookup succeeded.
C7_Step ==
  (response'.op = "dashboard" /\ LoggedIn)
  => \A h \in OrderedBySymbol(InvestmentsOfUser(session.user_id)) :
       \A l \in [1..Len(h) -> DashLookups] :
         Dashboard(h, l)
         => LET page == response'.page
                n == Len(h)
                cost(i) == FMul(h[i].quantity, h[i].buy_price)
                worth(i) == IF C7_LookupFails(l[i]) THEN Fin(0)
                            ELSE FMul(h[i].quantity, C7_Price(l[i]))
            IN  /\ Len(page.investments) = n
                /\ \A i \in 1..n : page.investments[i].id = h[i].id
                /\ \A i \in 1..n :
                     C7_LookupFails(l[i])
                     => /\ page.investments[i].current_price = Fin(0)
                        /\ page.investments[i].value = Fin(0)
                        /\ page.investments[i].profit_loss = Round2(FNeg(cost(i)))
                        /\ \E fl \in Range(response'.flash) :
                             /\ fl.cat = "warning"
                             /\ h[i].symbol \in Range(fl.args)
                /\ page.total_cost = Round2(FSum([i \in 1..n |-> cost(i)]))
                /\ page.total_value = Round2(FSum([i \in 1..n |-> worth(i)]))

C7_FailedLookupIsCountedAndReported == [][C7_Step]_vars

\* C8: on every dashboard page the category values add up to total_value.
C8_CategoriesSumToTotal ==
  (response.op = "dashboard" /\ response.status = "render")
  => FEq(FSum(response.page.category_values), response.page.total_value)

\* The (symbol, category, quantity, buy_price) tuples of rows, as a bag.
C9_Tuples(rows) ==
  LET t(i) == <<rows[i].symbol, rows[i].category, rows[i].quantity,
                rows[i].buy_price>>
      all == {t(i) : i \in 1..Len(rows)}
  IN  [x \in all |-> Cardinality({i \in 1..Len(rows) : t(i) = x})]

\* C9: when a user without holdings uploads what export_csv gives for the
\* portfolio of another user, the uploader's holdings afterwards are the same
\* (symbol, category, quantity, buy_price) tuples as that portfolio's.
C9_Step ==
  (response'.op = "import_csv" /\ LoggedIn)
  => \A i \in 1..Len(users) :
       ( /\ users[i].id # session.user_id
         /\ RowsOfUser(investments, session.user_id) = <<>>
         /\ ImportCsv(ExportText(users[i].id)) )
       => C9_Tuples(RowsOfUser(investments', session.user_id))
            = C9_Tuples(RowsOfUser(investments, users[i].id))

C9_ExportImportRoundTrip == [][C9_Step]_vars

\* What the filter is said to do with one record: skip it when the symbol is
\* missing or empty, read an absent quantity or buy_price as 0, skip it when
\* either is not positive, insert it otherwise.
C10_Expected(header, fields) ==
  LET symbol == DictGet(header, fields, KeySymbol)
      category == DictGet(header, fields, KeyCategory)
      amount(d) == IF ~d.has \/ d.none THEN Fin(0) ELSE FloatOfText(d.text).val
      q == amount(DictGet(header, fields, KeyQuantity))
      p == amount(DictGet(header, fields, KeyBuyPrice))
  IN  [insert |-> /\ symbol.has /\ ~symbol.none /\ symbol.text # <<>>
                  /\ FGtZero(q) /\ FGtZero(p),
       symbol |-> Upper(Strip(symbol.text)),
       category |-> IF category.has /\ ~category.none THEN Strip(category.text)
                    ELSE TextOther,
       quantity |-> q, buy_price |-> p]

\* The uploaded files, each as the loop reads it and as the filter is said to
\* leave it: the records to insert, in order.
C10_Cases ==
  { LET header == ReadRow(f[1])
        recs == DictRows(f)
        exp == [i \in 1..Len(recs) |-> C10_Expected(header, recs[i])]
        kept(e) == e.insert
    IN  <<ImportOutcomes(f), SelectSeq(exp, kept)>> : f \in CsvFiles }

\* C10: an upload appends to investments, for the session's user, exactly the
\* records of the file that the filter keeps, in order, whatever the other
\* records of the file are.
C10_Step ==
  (response'.op = "import_csv" /\ LoggedIn)
  => \A c \in C10_Cases :
       ImportRecords(c[1])
       => /\ Len(investments') = Len(investments) + Len(c[2])
          /\ \A k \in 1..Len(c[2]) :
               LET r == investments'[Len(investments) + k]
               IN  /\ r.user_id = session.user_id
                   /\ r.symbol = c[2][k].symbol
                   /\ r.category = c[2][k].category
                   /\ r.quantity = c[2][k].quantity
                   /\ r.buy_price = c[2][k].buy_price
          /\ \A k \in 1..Len(investments) : investments'[k] = investments[k]

C10_ImportFiltersRowByRow == [][C10_Step]_vars

\* The step is a crash: the connection was open and no answer was sent.
C11_Crashed == conn.pc # "closed" /\ conn'.pc = "closed" /\ response'.status = "crashed"

\* C11: the two writes of add_investment and the two of delete_investment
\* reach the database together or not at all.  No step changes one of the
\* tables investments and transactions without the other; a crash, before,
\* between or after the two writes, leaves both tables as they were before
\* the request; and the commit applies both writes, as the whole handler does.
C11_Step ==
  /\ (investments' # investments) <=> (transactions' # transactions)
  /\ C11_Crashed => UNCHANGED <<users, investments, transactions, nextInvId>>
  /\ (conn.pc = "commit" /\ ~C11_Crashed /\ conn' # conn)
     => IF conn.op = "add_investment"
        THEN /\ AddInvestment(conn.form[1], conn.form[2], conn.form[3],
                              conn.form[4], conn.lk)
             /\ Len(investments') = Len(investments) + 1
             /\ CountType(transactions', "BUY") = CountType(transactions, "BUY") + 1
        ELSE /\ DeleteInvestment(conn.id)
             /\ Len(investments') = Len(investments) - 1
             /\ CountType(transactions', "SELL") = CountType(transactions, "SELL") + 1

C11_WritesAreAllOrNothing == [][C11_Step]_vars

\* C11's case: delete_investment died between its INSERT of the SELL row and
\* its DELETE, and the database holds the row and no SELL record.
C11_Witness ==
  /\ response.status = "crashed"
  /\ response.op = "delete_investment"
  /\ response.to = "delete_row"
  /\ conn.pc = "closed"
  /\ Len(investments) >= 1
  /\ CountType(transactions, "SELL") = 0
  /\ CountType(transactions, "BUY") = Len(investments)

\* C11 as first stated: a crash between the two writes leaves the database
\* with one of them, that is with exactly one of the two tables changed.
C11_OriginalStep ==
  (C11_Crashed /\ conn.pc \in {"insert_transaction", "delete_row"})
  => ((investments' # investments) # (transactions' # transactions))

C11_CrashLeavesOneWrite == [][C11_OriginalStep]_vars

====
